---- MODULE Spec2Model ----
(***************************************************************************)
(* radlibs (src/main.rs): a two-pass mad-libs template filler.             *)
(*                                                                         *)
(* Bytes are one-character strings, byte strings (Vec<u8>, String) are     *)
(* sequences of them.  One action is one iteration of the scan loop of     *)
(* parse_file (one read_until and everything the iteration does with the   *)
(* buffer, the parser callback included), or the end of one pass.          *)
(***************************************************************************)
EXTENDS Naturals, Sequences, FiniteSets

\* ------------------------------------------------------------------ bounds

\* A template is the concatenation of at most MaxParts elements of Parts.
MaxParts == 3

\* ------------------------------------------------------- program constants

PROMPT_START == "{"
PROMPT_END == "}"
ESCAPE_CHAR == "\\"
IDENTIFIER == "@"
SEPARATOR == " "
NEWLINE == "\n"

\* ------------------------------------------------------------------ inputs

\* Every byte of the alphabet on its own, the two escaped delimiters, the
\* marker with a separator behind it, and two whole placeholders (a one-shot
\* one and a persistent one), so that short part sequences reach templates
\* with several placeholders.
Parts ==
    { <<PROMPT_START>>, <<PROMPT_END>>, <<ESCAPE_CHAR>>, <<IDENTIFIER>>,
      <<SEPARATOR>>, <<"x">>,
      <<ESCAPE_CHAR, PROMPT_START>>, <<ESCAPE_CHAR, PROMPT_END>>,
      <<IDENTIFIER, SEPARATOR>>,
      <<PROMPT_START, "x", PROMPT_END>>,
      <<PROMPT_START, IDENTIFIER, SEPARATOR, "x", PROMPT_END>> }

\* The lines the operator can type: two words ended by a newline, and the
\* empty line that read_line leaves at end of the operator's input.
Lines == { <<"c", NEWLINE>>, <<"d", NEWLINE>>, <<>> }

RECURSIVE Concat(_)
Concat(ps) == IF ps = <<>> THEN <<>> ELSE Head(ps) \o Concat(Tail(ps))

Templates ==
    { Concat(ps) : ps \in UNION { [1..n -> Parts] : n \in 0..MaxParts } }

\* ------------------------------------------------------------------- state

VARIABLES
    src,        \* the bytes of the template file
    pc,         \* "collect" | "render" | "done" | "aborted"
    runs,       \* how many rendering passes have been started
    pos,        \* the reader's offset in the file (bytes consumed)
    buf,        \* parse_file's buf
    parse_mode, \* parse_file's parse_mode
    word_map,   \* identifier -> [pool, persistent]; pool in iteration order
    stdout,     \* everything written to standard output
    bufAt,      \* history: the source offset of each byte of buf
    kept,       \* history: offsets of the bytes of buf whose escape was removed
    segs,       \* history: the segments handed to the parser, all passes
    answers,    \* history: the add_word calls, in order
    taken,      \* history: the take_word calls, in order
    mark,       \* history: Len(stdout) when the current rendering pass began
    prev        \* history: what the previous rendering pass wrote

vars == <<src, pc, runs, pos, buf, parse_mode, word_map, stdout,
          bufAt, kept, segs, answers, taken, mark, prev>>

\* ----------------------------------------------------------------- helpers

Range(s) == { s[i] : i \in 1..Len(s) }

Min(S) == CHOOSE m \in S : \A n \in S : m <= n

\* Vec::pop / String::pop: drop the last element, nothing on empty.
pop(s) == IF Len(s) = 0 THEN s ELSE SubSeq(s, 1, Len(s) - 1)

\* Vec::remove(i), 1-based here.
remove(s, i) == SubSeq(s, 1, i - 1) \o SubSeq(s, i + 1, Len(s))

\* All orders in which a HashSet may iterate over the elements of S.
Orders(S) ==
    { s \in [1..Cardinality(S) -> S] :
        \A i, j \in 1..Cardinality(S) : i # j => s[i] # s[j] }

\* ---------------------------------------------------------------- segmenter

\* ParseMode's discriminant: the delimiter read_until looks for.
Delim(mode) == IF mode = "Preceding" THEN PROMPT_START ELSE PROMPT_END

\* reader.read_until(delim, &mut buf): the offset after the read, which
\* stops behind the first delim at or after pos, or at end of file.
read_until(delim) ==
    LET hits == { i \in (pos + 1)..Len(src) : src[i] = delim }
    IN  IF hits = {} THEN Len(src) ELSE Min(hits)

ReadEnd == read_until(Delim(parse_mode))
Bytes == ReadEnd - pos
ReadBuf == buf \o SubSeq(src, pos + 1, ReadEnd)
ReadAt == bufAt \o [i \in 1..Bytes |-> pos + i]

\* Mutant: the escape byte is never looked at.
Terminates_always(b) == TRUE

\* buf.len() < 2 || buf[buf.len() - 2] != ESCAPE_CHAR
Terminates(b) == IF Len(b) < 2 THEN TRUE ELSE b[Len(b) - 1] # ESCAPE_CHAR

\* Mutant: the last byte is removed instead of the one before it.
RemoveEscape_last(b) == pop(b)

\* buf.remove(buf.len() - 2)
RemoveEscape(b) == remove(b, Len(b) - 1)

\* Mutant: the delimiter is left in the segment.
RemoveDelimiter_keep(b) == b

\* buf.pop() under the comment "remove delimiting character"
RemoveDelimiter(b) == pop(b)

Scanning == pc \in {"collect", "render"}

\* The record kept of a segment handed to the parser.
Seg(text, at) ==
    [ pass |-> pc, run |-> runs, mode |-> parse_mode, text |-> text,
      at |-> at, kept |-> kept, end |-> ReadEnd ]

\* Mutant: the mode is not toggled.
Emit_same_mode(text, at) ==
    /\ pos' = ReadEnd
    /\ buf' = <<>>
    /\ bufAt' = <<>>
    /\ kept' = {}
    /\ parse_mode' = parse_mode
    /\ segs' = Append(segs, Seg(text, at))

\* What an emitting iteration does to the scanner's own state.
Emit(text, at) ==
    /\ pos' = ReadEnd
    /\ buf' = <<>>
    /\ bufAt' = <<>>
    /\ kept' = {}
    /\ parse_mode' = IF parse_mode = "Preceding" THEN "Containing"
                                                 ELSE "Preceding"
    /\ segs' = Append(segs, Seg(text, at))

\* ------------------------------------------------------ placeholder grammar

starts_with(text, marker) == Len(text) >= 1 /\ text[1] = marker

\* str::split(SEPARATOR): the pieces between separators, at least one.
RECURSIVE split(_, _)
split(text, sep) ==
    LET hits == { i \in 1..Len(text) : text[i] = sep }
    IN  IF hits = {} THEN <<text>>
        ELSE <<SubSeq(text, 1, Min(hits) - 1)>>
                 \o split(SubSeq(text, Min(hits) + 1, Len(text)), sep)

\* The loop of lines 129-135: parts 1.. joined by single separators.
RECURSIVE JoinFrom(_, _)
JoinFrom(parts, i) ==
    IF i > Len(parts) THEN <<>>
    ELSE (IF i # 2 THEN <<SEPARATOR>> ELSE <<>>) \o parts[i]
             \o JoinFrom(parts, i + 1)

\* Mutant: a marker without a prompt phrase is prompted for like the rest.
InputSpec_never_skip(text) ==
    IF starts_with(text, IDENTIFIER)
    THEN [ skip |-> FALSE, prompt |-> JoinFrom(split(text, SEPARATOR), 2),
           identifier |-> split(text, SEPARATOR)[1], is_persistent |-> TRUE ]
    ELSE [ skip |-> FALSE, prompt |-> text, identifier |-> text,
           is_persistent |-> FALSE ]

\* Mutant: the part behind the marker's is taken for the identifier.
InputSpec_second_part(text) ==
    IF starts_with(text, IDENTIFIER)
    THEN LET prompt_parts == split(text, SEPARATOR)
         IN  IF Len(prompt_parts) <= 1
             THEN [ skip |-> TRUE ]
             ELSE [ skip |-> FALSE, prompt |-> JoinFrom(prompt_parts, 2),
                    identifier |-> prompt_parts[2], is_persistent |-> TRUE ]
    ELSE [ skip |-> FALSE, prompt |-> text, identifier |-> text,
           is_persistent |-> FALSE ]

\* InputParser::parse_containing up to the prompt: what is prompted for.
InputSpec(text) ==
    IF starts_with(text, IDENTIFIER)
    THEN LET prompt_parts == split(text, SEPARATOR)
         IN  IF Len(prompt_parts) <= 1
             THEN [ skip |-> TRUE ]
             ELSE [ skip |-> FALSE, prompt |-> JoinFrom(prompt_parts, 2),
                    identifier |-> prompt_parts[1], is_persistent |-> TRUE ]
    ELSE [ skip |-> FALSE, prompt |-> text, identifier |-> text,
           is_persistent |-> FALSE ]

\* Mutant: the whole text is looked up, marker or not.
OutputIdentifier_whole(text) == text

\* OutputParser::parse_containing: the identifier looked up.
OutputIdentifier(text) ==
    IF starts_with(text, IDENTIFIER) THEN split(text, SEPARATOR)[1] ELSE text

\* ---------------------------------------------------------------- word bank

\* InputParser::add_identifier
add_identifier(wm, identifier, is_persistent) ==
    IF identifier \in DOMAIN wm THEN wm
    ELSE [ id \in DOMAIN wm \cup {identifier} |->
             IF id = identifier
             THEN [ pool |-> <<>>, persistent |-> is_persistent ]
             ELSE wm[id] ]

\* Mutant: a multiset, every answer is stored.
insert_multiset(pool, word) == { Append(pool, word) }

\* HashSet::insert: the iteration orders the pool may have afterwards.  A
\* word already present changes nothing; a new one may land anywhere and may
\* move the others (a resize rehashes).
insert(pool, word) ==
    IF word \in Range(pool) THEN {pool}
    ELSE Orders(Range(pool) \cup {word})

\* InputParser::add_word: the banks it may leave.
add_word(wm, identifier, word, is_persistent) ==
    LET m == add_identifier(wm, identifier, is_persistent)
    IN  { [ m EXCEPT ![identifier].pool = p ] :
            p \in insert(m[identifier].pool, word) }

\* word_set.0.iter().nth(0): the first element in iteration order.
nth0(pool) == pool[1]

\* word_set.0.remove(&word): the others keep their order.
remove_word(pool, word) == SelectSeq(pool, LAMBDA w : w # word)

\* self.word_map.remove(&prompt)
remove_entry(wm, prompt) == [ id \in DOMAIN wm \ {prompt} |-> wm[id] ]

\* Mutant: the word is never removed.
take_word_map_keep(wm, prompt) == wm

\* Mutant: the word is removed whatever the persistence flag says.
take_word_map_consume(wm, prompt) ==
    LET rest == remove_word(wm[prompt].pool, nth0(wm[prompt].pool))
    IN  IF rest = <<>> THEN remove_entry(wm, prompt)
        ELSE [ wm EXCEPT ![prompt].pool = rest ]

\* Mutant: an entry stays in the bank when its last word is taken.
take_word_map_leave_empty(wm, prompt) ==
    IF wm[prompt].persistent THEN wm
    ELSE [ wm EXCEPT ![prompt].pool =
             remove_word(wm[prompt].pool, nth0(wm[prompt].pool)) ]

\* OutputParser::take_word on an identifier the bank holds: the bank after.
take_word_map(wm, prompt) ==
    LET word == nth0(wm[prompt].pool)
        rest == remove_word(wm[prompt].pool, word)
    IN  IF wm[prompt].persistent THEN wm
        ELSE IF rest = <<>> THEN remove_entry(wm, prompt)
        ELSE [ wm EXCEPT ![prompt].pool = rest ]

\* Mutant: an absent identifier yields the empty word instead of a panic.
take_word_default(wm, prompt) ==
    IF prompt \notin DOMAIN wm
    THEN [ panic |-> FALSE, word |-> <<>>, map |-> wm ]
    ELSE [ panic |-> FALSE, word |-> nth0(wm[prompt].pool),
           map |-> take_word_map(wm, prompt) ]

\* OutputParser::take_word: get_mut(&prompt).unwrap() panics on an absent
\* identifier, otherwise the word and the bank after.
take_word(wm, prompt) ==
    IF prompt \notin DOMAIN wm
    THEN [ panic |-> TRUE ]
    ELSE [ panic |-> FALSE, word |-> nth0(wm[prompt].pool),
           map |-> take_word_map(wm, prompt) ]

\* ------------------------------------------------------------------ actions

Init ==
    /\ src \in Templates
    /\ pc = "collect"
    /\ runs = 0
    /\ pos = 0
    /\ buf = <<>>
    /\ parse_mode = "Preceding"
    /\ word_map = <<>>
    /\ stdout = <<>>
    /\ bufAt = <<>>
    /\ kept = {}
    /\ segs = <<>>
    /\ answers = <<>>
    /\ taken = <<>>
    /\ mark = 0
    /\ prev = <<>>

\* Mutant: the bytes read are not consumed.
EscapeStep_no_progress ==
    /\ Scanning
    /\ Bytes # 0
    /\ ~Terminates(ReadBuf)
    /\ buf' = RemoveEscape(ReadBuf)
    /\ bufAt' = RemoveEscape(ReadAt)
    /\ kept' = kept \cup {ReadEnd}
    /\ UNCHANGED <<src, pc, runs, pos, parse_mode, word_map, stdout, segs,
                   answers, taken, mark, prev>>

\* Lines 60-63: the byte before the last one is the escape byte; it is
\* removed and the scan goes on in the same mode.
EscapeStep ==
    /\ Scanning
    /\ Bytes # 0
    /\ ~Terminates(ReadBuf)
    /\ pos' = ReadEnd
    /\ buf' = RemoveEscape(ReadBuf)
    /\ bufAt' = RemoveEscape(ReadAt)
    /\ kept' = kept \cup {ReadEnd}
    /\ UNCHANGED <<src, pc, runs, parse_mode, word_map, stdout, segs,
                   answers, taken, mark, prev>>

\* Mutant: the collection pass prompts for a literal segment too.
CollectPreceding_prompting ==
    /\ pc = "collect"
    /\ Bytes # 0
    /\ Terminates(ReadBuf)
    /\ parse_mode = "Preceding"
    /\ Emit(RemoveDelimiter(ReadBuf), RemoveDelimiter(ReadAt))
    /\ stdout' = stdout \o <<"Please input ">> \o RemoveDelimiter(ReadBuf)
                     \o <<": ">>
    /\ UNCHANGED <<src, pc, runs, word_map, answers, taken, mark, prev>>

\* Collection pass, lines 46-53 with InputParser::parse_preceding.
CollectPreceding ==
    /\ pc = "collect"
    /\ Bytes # 0
    /\ Terminates(ReadBuf)
    /\ parse_mode = "Preceding"
    /\ Emit(RemoveDelimiter(ReadBuf), RemoveDelimiter(ReadAt))
    /\ UNCHANGED <<src, pc, runs, word_map, stdout, answers, taken, mark,
                   prev>>

\* Collection pass, lines 46-49, 54-57 with InputParser::parse_containing.
CollectContaining ==
    /\ pc = "collect"
    /\ Bytes # 0
    /\ Terminates(ReadBuf)
    /\ parse_mode = "Containing"
    /\ Emit(RemoveDelimiter(ReadBuf), RemoveDelimiter(ReadAt))
    /\ LET spec == InputSpec(RemoveDelimiter(ReadBuf))
       IN  \/ /\ spec.skip
              /\ UNCHANGED <<word_map, stdout, answers>>
           \/ /\ ~spec.skip
              /\ \E line \in Lines :
                   LET word == pop(line)
                   IN  /\ word_map' \in add_word(word_map, spec.identifier,
                                                 word, spec.is_persistent)
                       /\ answers' = Append(answers,
                              [ id |-> spec.identifier, word |-> word,
                                is_persistent |-> spec.is_persistent ])
              /\ stdout' = stdout \o <<"Please input ">> \o spec.prompt
                               \o <<": ">>
    /\ UNCHANGED <<src, pc, runs, taken, mark, prev>>

\* Mutant: the second pass goes on where the first one stopped reading.
CollectEnd_no_seek ==
    /\ pc = "collect"
    /\ Bytes = 0
    /\ pc' = "render"
    /\ runs' = 1
    /\ buf' = <<>>
    /\ bufAt' = <<>>
    /\ kept' = {}
    /\ parse_mode' = "Preceding"
    /\ mark' = Len(stdout)
    /\ UNCHANGED <<src, pos, word_map, stdout, segs, answers, taken, prev>>

\* Lines 44-45 in the collection pass, then get_word_map and the start of
\* substitute_words_in: the second parse_file seeks to the start.
CollectEnd ==
    /\ pc = "collect"
    /\ Bytes = 0
    /\ pc' = "render"
    /\ runs' = 1
    /\ pos' = 0
    /\ buf' = <<>>
    /\ bufAt' = <<>>
    /\ kept' = {}
    /\ parse_mode' = "Preceding"
    /\ mark' = Len(stdout)
    /\ UNCHANGED <<src, word_map, stdout, segs, answers, taken, prev>>

\* Rendering pass, lines 46-53 with OutputParser::parse_preceding.
RenderPreceding ==
    /\ pc = "render"
    /\ Bytes # 0
    /\ Terminates(ReadBuf)
    /\ parse_mode = "Preceding"
    /\ Emit(RemoveDelimiter(ReadBuf), RemoveDelimiter(ReadAt))
    /\ stdout' = stdout \o RemoveDelimiter(ReadBuf)
    /\ UNCHANGED <<src, pc, runs, word_map, answers, taken, mark, prev>>

\* Rendering pass, lines 46-49, 54-57 with OutputParser::parse_containing.
RenderContaining ==
    /\ pc = "render"
    /\ Bytes # 0
    /\ Terminates(ReadBuf)
    /\ parse_mode = "Containing"
    /\ LET identifier == OutputIdentifier(RemoveDelimiter(ReadBuf))
           got == take_word(word_map, identifier)
       IN  \/ /\ got.panic
              /\ pc' = "aborted"
              /\ segs' = Append(segs, Seg(RemoveDelimiter(ReadBuf),
                                          RemoveDelimiter(ReadAt)))
              /\ taken' = Append(taken, [ id |-> identifier, ok |-> FALSE,
                                          word |-> <<>>, run |-> runs ])
              /\ UNCHANGED <<pos, buf, bufAt, kept, parse_mode, word_map,
                             stdout>>
           \/ /\ ~got.panic
              /\ Emit(RemoveDelimiter(ReadBuf), RemoveDelimiter(ReadAt))
              /\ word_map' = got.map
              /\ stdout' = stdout \o got.word
              /\ taken' = Append(taken, [ id |-> identifier, ok |-> TRUE,
                                          word |-> got.word, run |-> runs ])
              /\ UNCHANGED pc
    /\ UNCHANGED <<src, runs, answers, mark, prev>>

\* Lines 44-45 in the rendering pass, then lines 79-80: the final newline.
RenderEnd ==
    /\ pc = "render"
    /\ Bytes = 0
    /\ pc' = "done"
    /\ stdout' = stdout \o <<NEWLINE>>
    /\ UNCHANGED <<src, runs, pos, buf, parse_mode, word_map, bufAt, kept,
                   segs, answers, taken, mark, prev>>

Next ==
    \/ EscapeStep
    \/ CollectPreceding
    \/ CollectContaining
    \/ CollectEnd
    \/ RenderPreceding
    \/ RenderContaining
    \/ RenderEnd

Spec == Init /\ [][Next]_vars

\* substitute_words_in run once more on the bank the finished rendering pass
\* left (OutputParser::new on that map, and parse_file's seek to the start).
Rerender ==
    /\ pc = "done"
    /\ runs = 1
    /\ pc' = "render"
    /\ runs' = 2
    /\ pos' = 0
    /\ buf' = <<>>
    /\ bufAt' = <<>>
    /\ kept' = {}
    /\ parse_mode' = "Preceding"
    /\ prev' = SubSeq(stdout, mark + 1, Len(stdout))
    /\ mark' = Len(stdout)
    /\ UNCHANGED <<src, word_map, stdout, segs, answers, taken>>

NextTwice == Next \/ Rerender

SpecTwice == Init /\ [][NextTwice]_vars

\* ------------------------------------------------------------------ claims

Last(s) == s[Len(s)]

\* The bytes of s at the offsets in keep, in order.
RECURSIVE Pick(_, _, _)
Pick(s, keep, i) ==
    IF i > Len(s) THEN <<>>
    ELSE (IF i \in keep THEN <<s[i]>> ELSE <<>>) \o Pick(s, keep, i + 1)

\* The byte at offset i of s is preceded by the escape byte.
Escaped(s, i) == i > 1 /\ s[i - 1] = ESCAPE_CHAR

\* No placeholder: every '{' of the template is escaped.
NoPlaceholder(s) ==
    \A i \in 1..Len(s) : s[i] = PROMPT_START => Escaped(s, i)

\* The literal content of a template without placeholders: its bytes, an
\* escaped '{' standing for '{'.
LiteralContent(s) ==
    Pick(s, { i \in 1..Len(s) :
                ~(s[i] = ESCAPE_CHAR /\ i < Len(s)
                    /\ s[i + 1] = PROMPT_START) }, 1)

\* C1 (as stated): a template without placeholders is written to standard
\* output whole, followed by one newline.
C1_LiteralTemplateRendered ==
    (pc = "done" /\ NoPlaceholder(src))
        => stdout = LiteralContent(src) \o <<NEWLINE>>

\* The add_word calls made for an identifier, and the words of a sequence.
AnswersFor(id) == SelectSeq(answers, LAMBDA a : a.id = id)
TakenFor(id) == SelectSeq(taken, LAMBDA t : t.id = id /\ t.run = 1)
WordsOf(s) == { s[i].word : i \in 1..Len(s) }
Distinct(s) == \A i, j \in 1..Len(s) : i # j => s[i].word # s[j].word
OneShotIds == { answers[i].id : i \in { k \in 1..Len(answers) :
                                          ~answers[k].is_persistent } }

\* C2: a one-shot identifier with n occurrences and n distinct answers: the
\* rendering pass never fails on it, hands out each answer once, holds the
\* answers not yet handed out, and has no entry left after the n-th take.
C2_OneShotConsumedOnce ==
    \A id \in OneShotIds :
        LET given == AnswersFor(id)
            took == TakenFor(id)
        IN  Distinct(given) =>
              /\ \A i \in 1..Len(took) : took[i].ok
              /\ Distinct(took)
              /\ WordsOf(took) \subseteq WordsOf(given)
              /\ Len(took) <= Len(given)
              /\ Len(took) < Len(given) =>
                    /\ id \in DOMAIN word_map
                    /\ Range(word_map[id].pool) = WordsOf(given) \ WordsOf(took)
              /\ Len(took) = Len(given) => id \notin DOMAIN word_map
              /\ pc = "done" => Len(took) = Len(given)

C2_Witness ==
    /\ pc = "done"
    /\ \E id \in OneShotIds :
         /\ Len(AnswersFor(id)) >= 2
         /\ Distinct(AnswersFor(id))
         /\ Len(TakenFor(id)) = Len(AnswersFor(id))

\* C3: any two take_word calls of one rendering pass on the same persistent
\* identifier return the same word.
C3_PersistentSameWord ==
    \A i, j \in 1..Len(taken) :
        ( /\ taken[i].id = taken[j].id
          /\ taken[i].run = taken[j].run
          /\ taken[i].ok
          /\ starts_with(taken[i].id, IDENTIFIER) )
            => (taken[j].ok /\ taken[j].word = taken[i].word)

C3_Witness ==
    \E i, j \in 1..Len(taken) :
        /\ i < j
        /\ taken[i].id = taken[j].id
        /\ taken[i].ok /\ taken[j].ok
        /\ taken[i].id \in DOMAIN word_map
        /\ word_map[taken[i].id].persistent
        /\ Len(word_map[taken[i].id].pool) >= 2

\* The rendering pass is about to look up an identifier the bank lacks.
AbsentLookup ==
    /\ pc = "render"
    /\ Bytes # 0
    /\ Terminates(ReadBuf)
    /\ parse_mode = "Containing"
    /\ OutputIdentifier(RemoveDelimiter(ReadBuf)) \notin DOMAIN word_map

\* C4: take_word on an absent identifier aborts the run: nothing is
\* written, the bank is as it was, and no step follows the abort.
C4_AbsentIdentifierAborts ==
    [][ /\ pc # "aborted"
        /\ AbsentLookup =>
             /\ pc' = "aborted"
             /\ stdout' = stdout
             /\ word_map' = word_map
             /\ ~Last(taken').ok ]_vars

\* The abort on the second '{x}' after the first one took the only answer.
C4_Witness ==
    /\ pc = "aborted"
    /\ ~Last(taken).ok
    /\ \E i \in 1..(Len(taken) - 1) :
         taken[i].id = Last(taken).id /\ taken[i].ok

\* The read ends with the mode's delimiter, and the escape byte is the byte
\* before it in the source.
EscapedDelimiterRead ==
    /\ Scanning
    /\ Bytes # 0
    /\ src[ReadEnd] = (IF parse_mode = "Preceding" THEN PROMPT_START
                                                   ELSE PROMPT_END)
    /\ Escaped(src, ReadEnd)

\* C5: on an escaped delimiter the escape byte alone leaves the buffer, the
\* delimiter stays, nothing is emitted and the mode stays; a segment emitted
\* later holds each such delimiter and not the escape byte before it.
C5_EscapedDelimiterKept ==
    [][ /\ EscapedDelimiterRead =>
             /\ buf' = buf \o SubSeq(src, pos + 1, ReadEnd - 2)
                           \o <<src[ReadEnd]>>
             /\ parse_mode' = parse_mode
             /\ segs' = segs
             /\ pc' = pc
             /\ ReadEnd \in kept'
        /\ segs' # segs =>
             LET s == Last(segs')
             IN  \A p \in s.kept :
                   /\ \E i \in 1..Len(s.at) :
                        /\ s.at[i] = p
                        /\ s.text[i] = src[p]
                        /\ s.text[i] = (IF s.mode = "Preceding"
                                        THEN PROMPT_START ELSE PROMPT_END)
                   /\ (p - 1) \notin Range(s.at) ]_vars

C5_Witness ==
    /\ segs # <<>>
    /\ Last(segs).kept # {}
    /\ Last(segs).mode = "Containing"

\* The delimiter that ends a segment of the given mode.
OwnDelimiter(mode) ==
    IF mode = "Preceding" THEN PROMPT_START ELSE PROMPT_END

\* C6 (as stated): a brace in an emitted segment, literal or placeholder,
\* was preceded by the escape byte in the source.
C6_BracesOnlyEscaped ==
    \A k \in 1..Len(segs) :
        \A i \in 1..Len(segs[k].text) :
            segs[k].text[i] \in {PROMPT_START, PROMPT_END}
                => Escaped(src, segs[k].at[i])

\* C6 (amended): the delimiter of a segment's own mode ('{' in a literal
\* segment, '}' in a placeholder) is in the emitted segment only where the
\* escape byte preceded it in the source.
C6_OwnDelimiterOnlyEscaped ==
    \A k \in 1..Len(segs) :
        \A i \in 1..Len(segs[k].text) :
            segs[k].text[i] = OwnDelimiter(segs[k].mode)
                => Escaped(src, segs[k].at[i])

\* A literal segment with an escaped '{' and an unescaped '}'.
C6_Witness ==
    \E k \in 1..Len(segs) :
        /\ segs[k].mode = "Preceding"
        /\ \E i \in 1..Len(segs[k].text) :
             segs[k].text[i] = PROMPT_START
        /\ \E i \in 1..Len(segs[k].text) :
             segs[k].text[i] = PROMPT_END /\ ~Escaped(src, segs[k].at[i])

\* The segment's read ended with its mode's delimiter, unescaped.
Terminated(s) ==
    src[s.end] = OwnDelimiter(s.mode) /\ ~Escaped(src, s.end)

SegStart(k) ==
    IF k > 1 /\ segs[k - 1].pass = segs[k].pass /\ segs[k - 1].run = segs[k].run
    THEN segs[k - 1].end ELSE 0

AllPersistent ==
    \A k \in 1..Len(segs) :
        segs[k].mode = "Containing"
            => starts_with(segs[k].text, IDENTIFIER)

Rendered == SubSeq(stdout, mark + 1, Len(stdout))

\* C8: the rendering pass run a second time on the bank of the first, the
\* placeholders all persistent, ends as the first did and writes the same.
C8_RerenderSameOutput ==
    (runs = 2 /\ pc \in {"done", "aborted"} /\ AllPersistent)
        => (pc = "done" /\ Rendered = prev)

C8_Witness ==
    /\ runs = 2
    /\ pc = "done"
    /\ AllPersistent
    /\ \E i \in 1..Len(taken) :
         /\ taken[i].run = 2
         /\ Len(word_map[taken[i].id].pool) >= 2

\* The rendering pass is about to take a word of a persistent entry.
PersistentTake ==
    /\ pc = "render"
    /\ Bytes # 0
    /\ Terminates(ReadBuf)
    /\ parse_mode = "Containing"
    /\ OutputIdentifier(RemoveDelimiter(ReadBuf)) \in DOMAIN word_map
    /\ word_map[OutputIdentifier(RemoveDelimiter(ReadBuf))].persistent

\* C9: no step of the rendering pass removes or changes a persistent entry,
\* and take_word on a persistent identifier leaves the whole bank as it was.
C9_PersistentEntriesKept ==
    [][ pc = "render" =>
          /\ \A id \in DOMAIN word_map :
               word_map[id].persistent
                   => (id \in DOMAIN word_map' /\ word_map'[id] = word_map[id])
          /\ PersistentTake =>
               (word_map' = word_map /\ Last(taken').ok) ]_vars

\* A persistent entry is still whole after two takes, beside a one-shot one.
C9_Witness ==
    \E i, j \in 1..Len(taken) :
        /\ i < j
        /\ taken[i].id = taken[j].id
        /\ taken[i].id \in DOMAIN word_map
        /\ word_map[taken[i].id].persistent
        /\ WordsOf(AnswersFor(taken[i].id))
               = Range(word_map[taken[i].id].pool)
        /\ \E k \in 1..Len(taken) : ~starts_with(taken[k].id, IDENTIFIER)

\* After collection each pool holds the distinct answers entered for it.
PoolsAreAnswerSets ==
    (pc = "collect" \/ (pc = "render" /\ taken = <<>>)) =>
        /\ DOMAIN word_map = { answers[i].id : i \in 1..Len(answers) }
        /\ \A id \in DOMAIN word_map :
             /\ Len(word_map[id].pool) = Cardinality(WordsOf(AnswersFor(id)))
             /\ Range(word_map[id].pool) = WordsOf(AnswersFor(id))

\* add_word of a word the identifier's pool already holds changes nothing.
DuplicateIsNoOp ==
    answers' # answers =>
        LET a == Last(answers')
        IN  (a.id \in DOMAIN word_map /\ a.word \in Range(word_map[a.id].pool))
                => word_map' = word_map

\* C10: add_word has set semantics: a duplicate leaves the bank unchanged,
\* and a pool has as many words as distinct answers were entered for it.
C10_AddWordSetSemantics == []PoolsAreAnswerSets /\ [][DuplicateIsNoOp]_vars

\* Two occurrences answered alike: one word stored.
C10_Witness ==
    \E i, j \in 1..Len(answers) :
        /\ i < j
        /\ answers[i].id = answers[j].id
        /\ answers[i].word = answers[j].word
        /\ Len(word_map[answers[i].id].pool) = 1
        /\ pc = "collect"

\* The collection pass is about to hand a placeholder text to its parser.
CollectingPlaceholder ==
    /\ pc = "collect"
    /\ Bytes # 0
    /\ Terminates(ReadBuf)
    /\ parse_mode = "Containing"

PlaceholderText == RemoveDelimiter(ReadBuf)

\* The step writes a prompt.
Prompted ==
    /\ Len(stdout') > Len(stdout)
    /\ stdout'[Len(stdout) + 1] = "Please input "

\* No prompt, no line read, no change of the bank.
Skipped == stdout' = stdout /\ answers' = answers /\ word_map' = word_map

\* The marker with nothing or only separators behind it: '@', '@ ', ...
MarkerOnly(text) ==
    /\ Len(text) >= 1
    /\ text[1] = IDENTIFIER
    /\ \A i \in 2..Len(text) : text[i] = SEPARATOR

\* C11 (as stated): a placeholder, closed by its '}', that holds the marker
\* and no prompt phrase, '{@}' and '{@ }' alike, is skipped by the
\* collection pass.
C11_MarkerOnlySkipped ==
    [][ (CollectingPlaceholder /\ src[ReadEnd] = PROMPT_END
            /\ MarkerOnly(PlaceholderText)) => Skipped ]_vars

\* C11 (amended): a placeholder that starts with the marker and holds no
\* separator ('{@}') is skipped by the collection pass; one that starts with
\* the marker and holds a separator, '{@ }' included, is prompted for (with
\* an empty prompt when nothing follows the separator) and its answer is
\* stored under the text before the first separator.
C11_NoSeparatorSkipped ==
    [][ (CollectingPlaceholder /\ PlaceholderText # <<>>
            /\ PlaceholderText[1] = IDENTIFIER) =>
          IF SEPARATOR \in Range(PlaceholderText)
          THEN /\ Prompted
               /\ Len(answers') = Len(answers) + 1
               /\ Last(answers').id \in DOMAIN word_map'
               /\ Last(answers').id \o <<SEPARATOR>>
                    = SubSeq(PlaceholderText, 1, Len(Last(answers').id) + 1)
               /\ SEPARATOR \notin Range(Last(answers').id)
          ELSE Skipped ]_vars

\* The collection pass is over: '{@}' was handed to it and skipped.
C11_Witness ==
    /\ pc = "render"
    /\ \E k \in 1..Len(segs) :
         /\ segs[k].pass = "collect"
         /\ segs[k].mode = "Containing"
         /\ segs[k].text = <<IDENTIFIER>>
    /\ stdout = <<>>
    /\ answers = <<>>
    /\ word_map = <<>>

\* The segments of one pass alternate, the first one literal.
Alternating ==
    \A k \in 1..Len(segs) :
        segs[k].mode =
            IF k > 1 /\ segs[k - 1].pass = segs[k].pass
                     /\ segs[k - 1].run = segs[k].run
                     /\ segs[k - 1].mode = "Preceding"
            THEN "Containing" ELSE "Preceding"

\* Within a pass the mode changes only in a step that emits a segment.
ModeChangesOnEmit ==
    (pc' = pc /\ parse_mode' # parse_mode) => Len(segs') = Len(segs) + 1

\* C12: the emitted segments of a pass alternate in mode, starting with a
\* literal one, and the mode changes only when a segment is emitted.
C12_SegmentsAlternate == []Alternating /\ [][ModeChangesOnEmit]_vars

C12_Witness ==
    /\ Len(segs) >= 4
    /\ segs[4].pass = "collect"
    /\ segs[4].mode = "Containing"
    /\ segs[3].text # <<>>

\* What one step may do, by the pass it belongs to.
PassesSequential ==
    /\ pc = "collect" =>
         /\ taken' = taken
         /\ stdout' = stdout \/ (Prompted /\ answers' # answers)
         /\ pc' \in {"collect", "render"}
         /\ pc' = "render" =>
              (pos' = 0 /\ buf' = <<>> /\ parse_mode' = "Preceding"
                  /\ word_map' = word_map)
    /\ pc # "collect" =>
         /\ pc' # "collect"
         /\ answers' = answers
         /\ ~Prompted
         /\ DOMAIN word_map' \subseteq DOMAIN word_map
    /\ (answers' # answers \/ Prompted) => (taken = <<>> /\ mark = 0)
    /\ taken' # taken => pc = "render"

\* C13: prompts and add_word calls belong to the collection pass and come
\* before any rendered output and any take_word; the rendering pass starts
\* at the beginning of the source and neither prompts nor adds; the
\* collection pass neither renders nor takes.
C13_PassesSequential == [][PassesSequential]_vars

C13_Witness ==
    /\ pc = "done"
    /\ Len(answers) >= 2
    /\ Len(taken) >= 2
    /\ \E k \in 1..Len(segs) : segs[k].pass = "render" /\ segs[k].text # <<>>
                                   /\ segs[k].mode = "Preceding"

\* The placeholder segments of the collection pass that are prompted for.
CollectedSegs ==
    SelectSeq(segs, LAMBDA s : /\ s.pass = "collect"
                               /\ s.mode = "Containing"
                               /\ ~InputSpec(s.text).skip)

\* What the collection pass writes for a sequence of placeholder segments.
RECURSIVE PromptsOf(_)
PromptsOf(ss) ==
    IF ss = <<>> THEN <<>>
    ELSE <<"Please input ">> \o InputSpec(Head(ss).text).prompt \o <<": ">>
             \o PromptsOf(Tail(ss))

\* C14: the collection pass prompts, reads and add_words once for each
\* placeholder segment it does not skip, in source order, and does nothing
\* for a literal segment.
C14_OnePromptPerPlaceholder ==
    /\ Len(answers) = Len(CollectedSegs)
    /\ \A i \in 1..Len(answers) :
         /\ answers[i].id = InputSpec(CollectedSegs[i].text).identifier
         /\ answers[i].is_persistent
              = InputSpec(CollectedSegs[i].text).is_persistent
    /\ (IF pc = "collect" THEN stdout ELSE SubSeq(stdout, 1, mark))
         = PromptsOf(CollectedSegs)
    /\ pc = "collect" =>
         DOMAIN word_map = { answers[i].id : i \in 1..Len(answers) }

\* An identifier with two occurrences was prompted for twice, with a
\* literal segment in between.
C14_Witness ==
    /\ pc = "render"
    /\ Len(answers) = 2
    /\ answers[1].id = answers[2].id
    /\ \E k \in 2..Len(segs) :
         /\ segs[k].pass = "collect"
         /\ segs[k].mode = "Preceding"
         /\ segs[k].text # <<>>

\* The take_word calls of one rendering pass.
TakesOfRun(r) == SelectSeq(taken, LAMBDA t : t.run = r)

\* The placeholder segments of the first rendering pass.
RenderedSegs ==
    SelectSeq(segs, LAMBDA s : /\ s.pass = "render"
                               /\ s.run = 1
                               /\ s.mode = "Containing")

\* C15: for a placeholder text the collection pass does not skip, the
\* rendering pass looks up the identifier the collection pass stored the
\* answer under, so each lookup is for an identifier that was answered.
C15_SameIdentifierBothPasses ==
    /\ Len(RenderedSegs) = Len(TakesOfRun(1))
    /\ \A i \in 1..Len(RenderedSegs) :
         ~InputSpec(RenderedSegs[i].text).skip =>
            /\ TakesOfRun(1)[i].id
                 = InputSpec(RenderedSegs[i].text).identifier
            /\ \E j \in 1..Len(answers) :
                 answers[j].id = TakesOfRun(1)[i].id

\* A persistent placeholder with a prompt phrase was looked up.
C15_Witness ==
    \E i \in 1..Len(RenderedSegs) :
        /\ starts_with(RenderedSegs[i].text, IDENTIFIER)
        /\ ~InputSpec(RenderedSegs[i].text).skip
        /\ InputSpec(RenderedSegs[i].text).prompt # <<>>
        /\ TakesOfRun(1)[i].ok

Delimiters == {PROMPT_START, PROMPT_END}

\* The escape byte at offset p of the source has a delimiter right behind it.
BeforeDelimiter(p) == p < Len(src) /\ src[p + 1] \in Delimiters

\* C16 (as stated): the segmenter removes an escape byte only when a
\* delimiter byte follows it in the source, and an emitted segment holds
\* every other escape byte of its stretch of the source (the last byte read
\* of an unterminated tail, which C1's pop removes, left aside).
C16_EscapeOnlyBeforeDelimiter ==
    /\ \A p \in kept : BeforeDelimiter(p - 1)
    /\ \A k \in 1..Len(segs) :
         \A p \in (SegStart(k) + 1)..(segs[k].end - 1) :
             (src[p] = ESCAPE_CHAR /\ ~BeforeDelimiter(p))
                 => p \in Range(segs[k].at)

\* C17: every entry of the word bank has a word in its pool.
C17_NoEmptyPool ==
    \A id \in DOMAIN word_map : word_map[id].pool # <<>>

\* A one-shot entry went with its last word while another entry stays.
C17_Witness ==
    /\ word_map # <<>>
    /\ \E i \in 1..Len(taken) :
         taken[i].ok /\ taken[i].id \notin DOMAIN word_map

\* C18: an entry of the word bank is persistent exactly when its identifier
\* starts with the marker.
C18_PersistentIffMarker ==
    \A id \in DOMAIN word_map :
        word_map[id].persistent <=> starts_with(id, IDENTIFIER)

C18_Witness ==
    /\ \E id \in DOMAIN word_map : word_map[id].persistent
    /\ \E id \in DOMAIN word_map : ~word_map[id].persistent

\* C19: when the rendering pass that follows the collection pass reaches
\* the end of the source, the bank holds persistent entries only: each
\* one-shot identifier was looked up as often as it has distinct answers,
\* once for each of its answers and once for each of its occurrences.
C19_OnlyPersistentLeft ==
    (pc = "done" /\ runs = 1) =>
        /\ \A id \in DOMAIN word_map : word_map[id].persistent
        /\ \A id \in OneShotIds :
             /\ Len(TakenFor(id)) = Cardinality(WordsOf(AnswersFor(id)))
             /\ Len(TakenFor(id)) = Len(AnswersFor(id))
             /\ WordsOf(TakenFor(id)) = WordsOf(AnswersFor(id))

\* A finished run with a one-shot identifier consumed and a persistent
\* entry left.
C19_Witness ==
    /\ pc = "done"
    /\ OneShotIds # {}
    /\ word_map # <<>>

\* The segments of one pass, as the segmenter cut them.
PassSegs(pass, r) ==
    LET ss == SelectSeq(segs, LAMBDA s : s.pass = pass /\ s.run = r)
    IN  [ i \in 1..Len(ss) |->
            [ mode |-> ss[i].mode, text |-> ss[i].text, end |-> ss[i].end ] ]

\* An iteration of the scan loop consumes a byte or more, or ends the pass.
ScanProgress ==
    (Scanning /\ pc' = pc /\ runs' = runs) => pos' > pos

\* The rendering pass cuts the segments the collection pass cut: a prefix
\* of them while it runs or when it aborts, all of them when it is done.
SameSegments ==
    /\ Len(PassSegs("render", 1)) <= Len(PassSegs("collect", 0))
    /\ PassSegs("render", 1)
         = SubSeq(PassSegs("collect", 0), 1, Len(PassSegs("render", 1)))
    /\ (pc = "done" /\ runs = 1)
         => PassSegs("render", 1) = PassSegs("collect", 0)

\* What is left to do: the passes not yet over, and the bytes not yet read
\* in the current one.
Variant ==
    (IF pc = "collect" THEN 2 ELSE IF pc = "render" THEN 1 ELSE 0)
        * (Len(src) + 2)
      + (IF Scanning THEN Len(src) - pos + 1 ELSE 0)

\* The reader never passes the end of the source, and a pass emits no more
\* segments than the source has bytes.
ScanBounded ==
    /\ pos <= Len(src)
    /\ Len(PassSegs("collect", 0)) <= Len(src)
    /\ Len(PassSegs("render", 1)) <= Len(src)

\* C20: the scan terminates: each iteration consumes at least one byte or
\* stops the scan, every step lessens what is left to do (so each pass
\* reaches the end of the source or aborts), the segments of a pass are no
\* more than the bytes of the source, and both passes cut the same ones.
C20_ScanTerminates ==
    /\ [][ScanProgress /\ Variant' < Variant]_vars
    /\ []ScanBounded
    /\ []SameSegments

\* A finished run whose passes each went through an escape step and
\* emitted three segments or more.
C20_Witness ==
    /\ pc = "done"
    /\ Len(PassSegs("render", 1)) >= 3
    /\ \E k \in 1..Len(segs) : segs[k].kept # {}

====
